---- MODULE Spec2Model ----
(***************************************************************************)
(* Voice input: the recorder (src/src/recorder.py), the hotkey daemon      *)
(* (src/hotkey_daemon.py) and the MCP tools (src/server.py).               *)
(*                                                                         *)
(* One behaviour follows one process: prog = "daemon" is the hotkey        *)
(* daemon with its recorder, prog = "mcp" is the MCP server with           *)
(* mcp_recorder in manual-stop mode (auto_stop_on_silence = false, the     *)
(* default).  The recorder variables are those of that process's           *)
(* VoiceRecorder instance.  Spec follows these two.  SpecAuto follows the   *)
(* MCP server with auto_stop_on_silence = true, where voice_record runs    *)
(* record_until_silence.  SpecTail follows one VoiceRecorder called         *)
(* directly: start, blocks, get_tail_wav with any length, stop.  SpecWatch  *)
(* follows the daemon with keywords configured and takes the get_tail_wav  *)
(* call of the watch thread in two steps instead of one.  SpecTranscribe   *)
(* follows one transcription attempt on a WAV file through the             *)
(* transcriber (src/src/transcriber.py) and the caller's clean-up.         *)
(* SpecLock follows the daemon of SpecWatch with the state lock taken and   *)
(* given back in steps of their own.  SpecMatch follows                    *)
(* _transcribe_and_paste from the transcript to the delivery, for          *)
(* transcripts and keyword lists drawn from bounded sets.  SpecBands       *)
(* follows VoiceRecorder._compute_bands, the band levels of the overlay,   *)
(* on blocks of several lengths.  SpecStartup follows the start-up of      *)
(* several daemon processes over the one PID file: _kill_existing, then    *)
(* _write_pid, statement by statement.                                     *)
(*                                                                         *)
(* Strings are sequences of one-character strings.                         *)
(***************************************************************************)
EXTENDS Integers, Sequences, FiniteSets, TLC

\* ---- bounds ----------------------------------------------------------- *
\* start() calls followed in one behaviour
MaxSessions == 2
\* blocks one input stream delivers
MaxBlocks == 2
\* samples per block (blocksize=1024 in the code, scaled down)
BlockLen == 2
\* daemon processes started over one PID file
MaxDaemons == 3

VARIABLES
    prog,                  \* which process: "daemon" or "mcp"
    auto_send_keywords,    \* hotkey_daemon.py:105, cleaned list
    auto_stop_on_keyword,  \* hotkey_daemon.py:106
    frames,                \* VoiceRecorder._frames: sequence of blocks
    is_recording,          \* VoiceRecorder._is_recording
    stream,                \* VoiceRecorder._stream: 0 is None, else a stream id
    streams,               \* the audio subsystem: every InputStream made so far
    calls,                 \* number of start() calls so far; names the session
    files,                 \* temporary WAV files of recordings on disk
    tails,                 \* temporary WAV files of tail clips on disk
    levels,                \* RecordingOverlay._levels: the block last shown
    state,                 \* state = {"recording": .., "busy": ..}
    watchers,              \* _keyword_watch_loop threads, by session
    workers,               \* _transcribe_and_paste threads, by session
    clipboard,             \* the last text copied and whether Enter followed
    mcp,                   \* the MCP tool call in progress and the last reply
    auto_stop,             \* server.py:81, "auto_stop_on_silence"
    clock,                 \* time.time(), in ticks of half a second
    auto,                  \* the record_until_silence call: its locals
    tail,                  \* the last get_tail_wav call: its argument and result
    att,                   \* one transcription attempt: transcriber and progress
    heard,                 \* the transcript the backend returns for the recording
    lock,                  \* lock = threading.Lock(): the thread that holds it
    tailFailed,            \* history: watch threads whose last tail transcription raised
    bands,                 \* one _compute_bands call: the block and the levels returned
    procs,                 \* the daemon processes: where each is in main()
    pid_file,              \* PID_FILE (.hotkey.pid): whether it exists, and the PID in it
    ret,                   \* history: the last recorder call and its result
    prev,                  \* history: the recorder call before that
    own,                   \* history: blocks the session's own stream appended
    dropped,               \* history: streams that had a block refused
    stopRuns               \* history: runs of _stop_and_transcribe per session

recVars == <<frames, is_recording, stream, streams, calls, files, levels>>
daemonVars == <<state, watchers, workers, clipboard, tails>>
histVars == <<ret, prev, own, dropped, stopRuns>>
\* the band levels and the start-up of the processes, followed on their own
aloneVars == <<bands, procs, pid_file>>
\* the configuration, and with it what no action of one running program changes
cfgVars == <<prog, auto_send_keywords, auto_stop_on_keyword, aloneVars>>
autoVars == <<auto_stop, clock, auto>>
\* what the daemon and the manual-stop tools never touch
otherVars == <<autoVars, tail, att, heard>>
sideVars == <<otherVars, lock, tailFailed>>
vars == <<cfgVars, sideVars, recVars, daemonVars, mcp, histVars>>

Sessions == 1..MaxSessions

\* the lock when no thread holds it; by names the holder ("hotkey" or "watch"),
\* w the watch thread, runs the transcription worker the holder runs itself
Unlocked == [by |-> "none", w |-> 0, runs |-> 0]

\* ---- strings ---------------------------------------------------------- *

\* str.lower() on the characters the model uses, as the string it gives for
\* one character: U+0130 (capital I with dot above) becomes the two
\* characters "i" and U+0307, every other character becomes one character
Lower(c) ==
    CASE c = "G" -> <<"g">>
      [] c = "H" -> <<"h">>
      [] c = "u0130" -> <<"i", "u0307">>
      [] OTHER -> <<c>>

\* str.lower() on a string
RECURSIVE LowerStr(_)
LowerStr(s) == IF s = <<>> THEN <<>> ELSE Lower(Head(s)) \o LowerStr(Tail(s))

\* the characters of rstrip(".!?,;: ")
Punct == {".", "!", "?", ",", ";", ":", " "}
\* "'" and "’"
Quotes == {"'", "u2019"}
\* what str.strip() removes
White == {" "}

RECURSIVE RStrip(_, _)
RStrip(s, set) ==
    IF s # <<>> /\ s[Len(s)] \in set THEN RStrip(SubSeq(s, 1, Len(s) - 1), set) ELSE s

RECURSIVE LStrip(_, _)
LStrip(s, set) ==
    IF s # <<>> /\ s[1] \in set THEN LStrip(Tail(s), set) ELSE s

Strip(s) == LStrip(RStrip(s, White), White)

\* s.replace("'", "").replace("’", "")
RemoveQuotes(s) == SelectSeq(s, LAMBDA c : c \notin Quotes)

EndsWith(s, suffix) ==
    /\ Len(suffix) <= Len(s)
    /\ SubSeq(s, Len(s) - Len(suffix) + 1, Len(s)) = suffix

\* a _normalize that keeps trailing punctuation
Normalize_noStrip(s) == RemoveQuotes(LowerStr(s))

\* _normalize, and the same expression in _keyword_watch_loop
Normalize(s) == RStrip(RemoveQuotes(LowerStr(s)), Punct)

\* [kw.lower().strip() for kw in hotkey_cfg.get("auto_send_keywords", [])]
CleanKeywords(raw) == [i \in 1..Len(raw) |-> Strip(LowerStr(raw[i]))]

\* a search that goes on after a match: the last keyword that matches
FirstMatch_last(norm, kws) ==
    LET hits == {i \in 1..Len(kws) : EndsWith(norm, kws[i])}
    IN  IF hits = {} THEN 0 ELSE CHOOSE i \in hits : \A j \in hits : i >= j

\* the first configured keyword the normalized text ends with, 0 if none
FirstMatch(norm, kws) ==
    LET hits == {i \in 1..Len(kws) : EndsWith(norm, kws[i])}
    IN  IF hits = {} THEN 0 ELSE CHOOSE i \in hits : \A j \in hits : i <= j

\* the while loop that walks back over len(kw) normalized characters
RECURSIVE CutWalk(_, _, _, _)
CutWalk(stripped, kwlen, cut, norm_count) ==
    IF norm_count < kwlen /\ cut > 0
    THEN CutWalk(stripped, kwlen, cut - 1,
                 IF Lower(stripped[cut]) \notin {<<q>> : q \in Quotes}
                 THEN norm_count + 1 ELSE norm_count)
    ELSE cut

\* the auto-send check: [text |-> delivered text, send |-> should_send]
AutoSend(text, kws) ==
    LET k == IF kws = <<>> THEN 0 ELSE FirstMatch(Normalize(text), kws)
    IN  IF k = 0
        THEN [text |-> text, send |-> FALSE]
        ELSE LET stripped == RStrip(text, Punct \cup Quotes)
                 cut == CutWalk(stripped, Len(kws[k]), Len(stripped), 0)
             IN  [text |-> RStrip(SubSeq(stripped, 1, cut), White), send |-> TRUE]

\* ---- audio data ------------------------------------------------------- *

\* the int16 sample j of block k of stream s: distinct values of both signs
SampleVal(s, k, j) == ((s * (MaxBlocks + 1) + k) * (BlockLen + 1) + j) * 700 - 20000

\* a block is <<stream id, number>>; indata.copy() keeps its samples
BlockSamples(b) == [j \in 1..BlockLen |-> SampleVal(b[1], b[2], j)]

\* np.concatenate(frames)
RECURSIVE Concatenate(_)
Concatenate(fs) ==
    IF fs = <<>> THEN <<>> ELSE BlockSamples(Head(fs)) \o Concatenate(Tail(fs))

\* audio_data.tobytes(): int16, little-endian, two's complement
RECURSIVE ToBytes(_)
ToBytes(samples) ==
    IF samples = <<>> THEN <<>>
    ELSE LET u == Head(samples) % 65536
         IN  <<u % 256, u \div 256>> \o ToBytes(Tail(samples))

\* np.frombuffer(frames, dtype=np.int16): the samples a WAV file holds
RECURSIVE FromBytes(_)
FromBytes(bytes) ==
    IF Len(bytes) < 2 THEN <<>>
    ELSE LET u == bytes[1] + 256 * bytes[2]
         IN  <<IF u >= 32768 THEN u - 65536 ELSE u>> \o FromBytes(SubSeq(bytes, 3, Len(bytes)))

\* _save_wav: the file it leaves at a fresh path
SaveWav(path, audio_data) == [path |-> path, sampwidth |-> 2, data |-> ToBytes(audio_data)]

\* ---- recorder (src/src/recorder.py) ----------------------------------- *

\* what opening the device can do: sd.InputStream(...) raises, stream.start()
\* raises, or both succeed
StartOutcomes == {"ok", "openFail", "startFail"}

\* the record of a recorder call kept in ret and prev
Call(op, res) == [op |-> op, res |-> res, n |-> 1 - ret.n]

\* VoiceRecorder.start
RecorderStart(outcome) ==
    LET id == calls + 1
    IN  /\ calls < MaxSessions
        /\ calls' = id
        /\ frames' = <<>>
        /\ is_recording' = TRUE
        /\ CASE outcome = "openFail" ->
                  /\ stream' = stream
                  /\ streams' = streams
             [] outcome = "startFail" ->
                  /\ stream' = id
                  /\ streams' = [streams EXCEPT ![id] = [st |-> "open", n |-> 0]]
             [] OTHER ->
                  /\ stream' = id
                  /\ streams' = [streams EXCEPT ![id] = [st |-> "running", n |-> 0]]
        /\ own' = <<>>
        /\ prev' = ret
        /\ ret' = Call("start", outcome)
        /\ UNCHANGED <<files, levels, dropped>>

\* on_levels is set by the daemon (overlay.set_levels), not by the MCP server
HasOnLevels == prog = "daemon"

\* a callback that appends whatever the flag says
ToggleCbRecords_always == TRUE

\* "if self._is_recording:" in _toggle_cb
ToggleCbRecords == is_recording

\* VoiceRecorder._toggle_cb, called by the running stream s with its next block
ToggleCb(s) ==
    /\ streams[s].st = "running"
    /\ streams[s].n < MaxBlocks
    /\ streams' = [streams EXCEPT ![s].n = @ + 1]
    /\ LET b == <<s, streams[s].n + 1>>
       IN  IF ToggleCbRecords
           THEN /\ frames' = Append(frames, b)
                /\ levels' = IF HasOnLevels THEN b ELSE levels
                /\ own' = IF s = calls THEN Append(own, b) ELSE own
                /\ dropped' = dropped
           ELSE /\ dropped' = dropped \cup {s}
                /\ UNCHANGED <<frames, levels, own>>
    /\ UNCHANGED <<is_recording, stream, calls, files, ret, prev>>

\* a stop that never takes the empty-recording exit
StopReturnsNone_never == FALSE

\* "if not self._frames: return None" in stop
StopReturnsNone == frames = <<>>

\* a stop that keeps the buffer after saving it
FramesAfterStop_kept == frames

\* "self._frames = []" in stop
FramesAfterStop == <<>>

\* a stop that closes the stream and keeps the reference to it
StreamAfterStop_kept == stream

\* "self._stream = None" in stop
StreamAfterStop == 0

\* VoiceRecorder.stop; saveOk tells whether _save_wav can write the file.
\* stream.stop() and stream.close() are called with sounddevice's default
\* ignore_errors=True and do not raise.  A closed stream delivers nothing more.
RecorderStop(saveOk) ==
    LET res == IF StopReturnsNone THEN "none" ELSE IF saveOk THEN "wav" ELSE "saveFail"
        wav == SaveWav(<<"wav", calls>>, Concatenate(frames))
    IN  /\ StopReturnsNone => saveOk
        /\ is_recording' = FALSE
        /\ stream' = StreamAfterStop
        /\ streams' = IF stream # 0
                      THEN [streams EXCEPT ![stream] = [st |-> "closed", n |-> 0]]
                      ELSE streams
        /\ frames' = FramesAfterStop
        /\ files' = CASE res = "wav" -> files \cup {wav}
                      [] res = "saveFail" -> files \cup {[wav EXCEPT !.data = <<>>]}
                      [] OTHER -> files
        /\ own' = <<>>
        /\ prev' = ret
        /\ ret' = Call("stop", res)
        /\ UNCHANGED <<calls, levels, dropped>>

\* int(self.sample_rate * seconds), scaled down with the block length
TailSamples == 3

\* the loop over reversed(self._frames): the index where tail_frames begins
RECURSIVE TailWalk(_, _, _)
TailWalk(i, total, samples_needed) ==
    IF total + BlockLen >= samples_needed \/ i = 1 THEN i
    ELSE TailWalk(i - 1, total + BlockLen, samples_needed)

\* x[-n:] of numpy: the last n elements, and all of x when n = 0
LastN(x, n) ==
    IF n = 0 \/ n >= Len(x) THEN x ELSE SubSeq(x, Len(x) - n + 1, Len(x))

\* the audio get_tail_wav saves, for a non-empty buffer
TailAudio(fs, samples_needed) ==
    LET from == TailWalk(Len(fs), 0, samples_needed)
    IN  LastN(Concatenate(SubSeq(fs, from, Len(fs))), samples_needed)

\* ---- transcription capability ----------------------------------------- *

\* transcripts the backend may return
Texts == { <<>>, <<"h", "i">>, <<"H", "i", " ", "G", "o", ".">> }

\* transcriber.transcribe(path): raises, or returns a text
TranscribeOutcomes ==
    {[ok |-> FALSE, text |-> <<>>]} \cup {[ok |-> TRUE, text |-> t] : t \in Texts}

\* ---- hotkey daemon (src/hotkey_daemon.py) ----------------------------- *

\* a _keyword_watch_loop thread: req is the session its tail clip was cut from
NoWatcher == [pc |-> "none", req |-> 0]
\* a _transcribe_and_paste thread
NoWorker == [pc |-> "none", text |-> <<>>]

\* an on_hotkey that starts the watch thread whatever the configuration
WatchEnabled_always == TRUE

\* "if auto_stop_on_keyword and auto_send_keywords:" in on_hotkey
WatchEnabled == auto_stop_on_keyword /\ auto_send_keywords # <<>>

\* _stop_and_transcribe, run by the thread that holds the lock
\* a _stop_and_transcribe that leaves the recording flag as it was
RecordingAfterStop_kept == state.recording

\* "state["recording"] = False", the first statement of _stop_and_transcribe
RecordingAfterStop == FALSE

StopAndTranscribe ==
    \E saveOk \in BOOLEAN :
        /\ RecorderStop(saveOk)
        /\ stopRuns' = [stopRuns EXCEPT ![calls] = @ + 1]
        /\ CASE ret'.res = "none" ->
                  /\ state' = [recording |-> RecordingAfterStop, busy |-> FALSE]
                  /\ workers' = workers
             [] ret'.res = "wav" ->
                  /\ state' = [recording |-> RecordingAfterStop, busy |-> TRUE]
                  /\ workers' = [workers EXCEPT ![calls] = [NoWorker EXCEPT !.pc = "transcribing"]]
             [] OTHER ->
                  \* recorder.stop() raised: the lines after it do not run
                  /\ state' = [recording |-> RecordingAfterStop, busy |-> TRUE]
                  /\ workers' = workers

\* an on_hotkey that starts a recording although the daemon is busy
BusyBranch_starts ==
    /\ prog = "daemon"
    /\ state.busy
    /\ RecorderStart("ok")
    /\ state' = [state EXCEPT !.recording = TRUE]
    /\ UNCHANGED <<cfgVars, otherVars, tailFailed, watchers, workers, clipboard, tails,
                   mcp, stopRuns>>

\* the body of "with lock:" in on_hotkey while busy: the busy tone, nothing else
BusyBranch ==
    /\ prog = "daemon"
    /\ state.busy
    /\ UNCHANGED <<cfgVars, otherVars, tailFailed, recVars, daemonVars, mcp, histVars>>

\* on_hotkey while busy, from taking the lock to giving it back
HotkeyBusy == BusyBranch /\ UNCHANGED lock

\* the body of "with lock:" in on_hotkey, START branch
StartBranch ==
    /\ prog = "daemon"
    /\ ~state.busy
    /\ ~state.recording
    /\ \E o \in StartOutcomes :
        /\ RecorderStart(o)
        /\ IF o = "ok"
           THEN /\ state' = [state EXCEPT !.recording = TRUE]
                /\ watchers' = IF WatchEnabled
                               THEN [watchers EXCEPT ![calls + 1] =
                                        [NoWatcher EXCEPT !.pc = "wait"]]
                               ELSE watchers
           ELSE /\ state' = [state EXCEPT !.recording = FALSE]
                /\ watchers' = watchers
    /\ UNCHANGED <<cfgVars, otherVars, tailFailed, workers, clipboard, tails, mcp, stopRuns>>

\* on_hotkey, START branch, from taking the lock to giving it back
HotkeyStart == StartBranch /\ UNCHANGED lock

\* the body of "with lock:" in on_hotkey, STOP branch
StopBranch ==
    /\ prog = "daemon"
    /\ ~state.busy
    /\ state.recording
    /\ StopAndTranscribe
    /\ UNCHANGED <<cfgVars, otherVars, tailFailed, watchers, clipboard, tails, mcp>>

\* on_hotkey, STOP branch, from taking the lock to giving it back
HotkeyStop == StopBranch /\ UNCHANGED lock

\* "while state["recording"] and not state["busy"]:" in _keyword_watch_loop
WatchLoopCond == state.recording /\ ~state.busy

\* the watch thread started with session w wakes from time.sleep, tests the loop
\* condition and asks the recorder for the tail clip; get_tail_wav is one step
WatchPoll(w) ==
    /\ watchers[w].pc = "wait"
    /\ IF ~WatchLoopCond
       THEN /\ watchers' = [watchers EXCEPT ![w] = [NoWatcher EXCEPT !.pc = "done"]]
            /\ tails' = tails
       ELSE IF frames = <<>>
       THEN /\ watchers' = [watchers EXCEPT ![w].req = calls]
            /\ tails' = tails
       ELSE /\ watchers' = [watchers EXCEPT ![w] = [pc |-> "transcribe", req |-> calls]]
            /\ tails' = tails \cup {SaveWav(<<"tail", w>>, TailAudio(frames, TailSamples))}
    /\ UNCHANGED <<cfgVars, sideVars, recVars, state, workers, clipboard, mcp, histVars>>

\* the same wake-up with get_tail_wav in two steps; this is the first: the
\* loop condition and the test "if not self._frames" of get_tail_wav
WatchPollTest(w) ==
    /\ watchers[w].pc = "wait"
    /\ watchers' = IF ~WatchLoopCond
                   THEN [watchers EXCEPT ![w] = [NoWatcher EXCEPT !.pc = "done"]]
                   ELSE IF frames = <<>>
                   THEN [watchers EXCEPT ![w].req = calls]
                   ELSE [watchers EXCEPT ![w] = [pc |-> "tail", req |-> calls]]
    /\ UNCHANGED <<cfgVars, sideVars, recVars, state, workers, clipboard, tails, mcp,
                   histVars>>

\* the second: get_tail_wav reads self._frames again for its loop.  Over an
\* emptied buffer tail_frames stays empty and np.concatenate raises
\* ValueError, which nothing in _keyword_watch_loop catches.
WatchTail(w) ==
    /\ watchers[w].pc = "tail"
    /\ IF frames = <<>>
       THEN /\ watchers' = [watchers EXCEPT ![w] = [NoWatcher EXCEPT !.pc = "crashed"]]
            /\ tails' = tails
       ELSE /\ watchers' = [watchers EXCEPT ![w].pc = "transcribe"]
            /\ tails' = tails \cup {SaveWav(<<"tail", w>>, TailAudio(frames, TailSamples))}
    /\ UNCHANGED <<cfgVars, sideVars, recVars, state, workers, clipboard, mcp, histVars>>

\* a watch loop that takes the text of a failed transcription for a trigger
TailTextOnError_trigger == <<"g", "o">>

\* "except Exception: tail_text = """ in _keyword_watch_loop
TailTextOnError == <<>>

\* a trigger that stops without looking at the state again
WatchTriggerGuard_unchecked == TRUE

\* "if state["recording"] and not state["busy"]:" under the lock
WatchTriggerGuard == state.recording /\ ~state.busy

\* the tail transcription returns or raises and the clip is unlinked; if the
\* text ends with a keyword the thread takes the lock, stops the recording if
\* the guard holds, and returns; otherwise it sleeps again
WatchTranscribed(w) ==
    /\ watchers[w].pc = "transcribe"
    /\ tails' = {f \in tails : f.path # <<"tail", w>>}
    /\ \E out \in TranscribeOutcomes :
        LET tail_text == IF out.ok THEN out.text ELSE TailTextOnError
            hit == /\ tail_text # <<>>
                   /\ FirstMatch(Normalize(tail_text), auto_send_keywords) # 0
        IN  IF hit
            THEN /\ watchers' = [watchers EXCEPT ![w] = [NoWatcher EXCEPT !.pc = "done"]]
                 /\ IF WatchTriggerGuard
                    THEN StopAndTranscribe
                    ELSE UNCHANGED <<recVars, state, workers, histVars>>
            ELSE /\ watchers' = [watchers EXCEPT ![w].pc = "wait"]
                 /\ UNCHANGED <<recVars, state, workers, histVars>>
    /\ UNCHANGED <<cfgVars, sideVars, clipboard, mcp>>

\* _transcribe_and_paste up to "text = text.strip()", when transcribe gives out
WorkerGot(k, out) ==
    /\ workers[k].pc = "transcribing"
    /\ files' = {f \in files : f.path # <<"wav", k>>}
    /\ state' = [state EXCEPT !.busy = FALSE]
    /\ IF ~out.ok \/ Strip(out.text) = <<>>
       THEN workers' = [workers EXCEPT ![k] = [NoWorker EXCEPT !.pc = "done"]]
       ELSE workers' = [workers EXCEPT ![k] = [pc |-> "deliver", text |-> Strip(out.text)]]
    /\ UNCHANGED <<cfgVars, sideVars, frames, is_recording, stream, streams, calls, levels,
                   watchers, clipboard, tails, mcp, histVars>>

\* _transcribe_and_paste up to the end of its finally block
WorkerTranscribed(k) == \E out \in TranscribeOutcomes : WorkerGot(k, out)

\* an Enter key after every delivery
SendsEnter_always(should_send) == TRUE

\* "if should_send:" before kb.press_and_release("enter")
SendsEnter(should_send) == should_send

\* the rest of _transcribe_and_paste: keyword cut, clipboard, paste, Enter
WorkerDeliver(k) ==
    /\ workers[k].pc = "deliver"
    /\ workers' = [workers EXCEPT ![k] = [NoWorker EXCEPT !.pc = "done"]]
    /\ \E pasteOk \in BOOLEAN :
        LET r == AutoSend(workers[k].text, auto_send_keywords)
        IN  IF pasteOk
            THEN clipboard' = [text |-> IF r.text # <<>> THEN r.text ELSE clipboard.text,
                               enter |-> SendsEnter(r.send)]
            ELSE clipboard' = clipboard
    /\ UNCHANGED <<cfgVars, sideVars, recVars, state, watchers, tails, mcp, histVars>>

\* ---- the auto-send matcher on drawn transcripts ------------------------ *

\* characters of the transcripts
MaxTextLen == 3

\* the characters transcripts are made of: a letter, a capital, U+0130, a
\* space, a full stop and an apostrophe
MatchChars == {"a", "G", "o", "u0130", " ", ".", "'"}

\* the transcripts the backend may return
MatchTexts == UNION {[1..n -> MatchChars] : n \in 0..MaxTextLen}

\* the "auto_send_keywords" lists of config.json
MatchConfigs ==
    { <<>>,
      << <<"g", "o">> >>,
      << <<" ", "G", "o", " ">> >>,
      << <<"o">>, <<"g", "o">> >>,
      << <<"g", "o">>, <<"o">> >>,
      << <<"g", "'", "o">> >>,
      << <<"o", ".">> >>,
      << <<"u0130">> >>,
      << <<" ">> >> }

\* transcriber.transcribe(audio_path) in _transcribe_and_paste raises, or
\* returns the transcript heard
MatchTranscribed(k) ==
    \E ok \in BOOLEAN : WorkerGot(k, [ok |-> ok, text |-> IF ok THEN heard ELSE <<>>])

\* ---- the state lock (lock = threading.Lock() of hotkey_daemon.py) ------ *

\* recordings followed where the lock is taken and given back in steps
MaxLockSessions == 1

\* a _stop_and_transcribe that calls _transcribe_and_paste itself
SpawnsWorker_inline == FALSE

\* "threading.Thread(target=_transcribe_and_paste, ...).start()": the
\* transcription runs in a thread of its own
SpawnsWorker == TRUE

\* the transcription worker the step starts, 0 if none
WorkerStarted ==
    IF /\ calls \in Sessions
       /\ workers[calls].pc # "transcribing"
       /\ workers'[calls].pc = "transcribing"
    THEN calls ELSE 0

\* the lock where the "with lock:" block is left: free, unless the holder has
\* yet to run the transcription it started
LockAtExit ==
    IF WorkerStarted # 0 /\ ~SpawnsWorker
    THEN [lock EXCEPT !.runs = WorkerStarted]
    ELSE Unlocked

\* "with lock:" in on_hotkey: the keyboard thread takes the lock
HotkeyAcquire ==
    /\ prog = "daemon"
    /\ lock.by = "none"
    /\ lock' = [Unlocked EXCEPT !.by = "hotkey"]
    /\ UNCHANGED <<cfgVars, otherVars, tailFailed, recVars, daemonVars, mcp, histVars>>

\* the keyboard thread runs the body of on_hotkey and leaves the with block
LockedBusy == lock.by = "hotkey" /\ lock.runs = 0 /\ BusyBranch /\ lock' = LockAtExit
LockedStart ==
    /\ lock.by = "hotkey"
    /\ lock.runs = 0
    /\ calls < MaxLockSessions
    /\ StartBranch
    /\ lock' = LockAtExit
LockedStop == lock.by = "hotkey" /\ lock.runs = 0 /\ StopBranch /\ lock' = LockAtExit

\* the tail transcription of watch thread w returns or raises and the clip is
\* unlinked; if the text ends with a keyword the thread goes for the lock,
\* otherwise it sleeps again
WatchResult(w) ==
    /\ watchers[w].pc = "transcribe"
    /\ tails' = {f \in tails : f.path # <<"tail", w>>}
    /\ \E out \in TranscribeOutcomes :
        LET tail_text == IF out.ok THEN out.text ELSE TailTextOnError
            hit == /\ tail_text # <<>>
                   /\ FirstMatch(Normalize(tail_text), auto_send_keywords) # 0
        IN  /\ watchers' = [watchers EXCEPT ![w].pc = IF hit THEN "trigger" ELSE "wait"]
            /\ tailFailed' = IF out.ok THEN tailFailed \ {w} ELSE tailFailed \cup {w}
    /\ UNCHANGED <<cfgVars, otherVars, lock, recVars, state, workers, clipboard, mcp,
                   histVars>>

\* "with lock:" in _keyword_watch_loop: the watch thread takes the lock
WatchAcquire(w) ==
    /\ watchers[w].pc = "trigger"
    /\ lock.by = "none"
    /\ lock' = [Unlocked EXCEPT !.by = "watch", !.w = w]
    /\ watchers' = [watchers EXCEPT ![w].pc = "locked"]
    /\ UNCHANGED <<cfgVars, otherVars, tailFailed, recVars, state, workers, clipboard,
                   tails, mcp, histVars>>

\* the watch thread tests the state again, stops the recording if it is still
\* on, leaves the with block and returns
WatchLocked(w) ==
    /\ watchers[w].pc = "locked"
    /\ lock.runs = 0
    /\ watchers' = [watchers EXCEPT ![w] = [NoWatcher EXCEPT !.pc = "done"]]
    /\ IF WatchTriggerGuard
       THEN StopAndTranscribe
       ELSE UNCHANGED <<recVars, state, workers, histVars>>
    /\ lock' = LockAtExit
    /\ UNCHANGED <<cfgVars, otherVars, tailFailed, clipboard, tails, mcp>>

\* ---- MCP tools (src/server.py) ---------------------------------------- *

\* voice_record, manual-stop path
VoiceRecord ==
    /\ prog = "mcp"
    /\ mcp.pc = "idle"
    /\ \E o \in StartOutcomes :
        /\ RecorderStart(o)
        /\ mcp' = [mcp EXCEPT !.reply = IF o = "ok" THEN "started" ELSE "failed"]
    /\ UNCHANGED <<cfgVars, sideVars, daemonVars, stopRuns>>

\* voice_stop up to the return of mcp_recorder.stop
VoiceStop ==
    /\ prog = "mcp"
    /\ mcp.pc = "idle"
    /\ \E saveOk \in BOOLEAN :
        /\ RecorderStop(saveOk)
        /\ mcp' = CASE ret'.res = "none" -> [mcp EXCEPT !.reply = "noAudio"]
                    [] ret'.res = "wav" -> [mcp EXCEPT !.pc = "transcribing"]
                    [] OTHER -> [mcp EXCEPT !.reply = "error"]
    /\ UNCHANGED <<cfgVars, sideVars, daemonVars, stopRuns>>

\* _transcribe of server.py
McpTranscribed ==
    /\ prog = "mcp"
    /\ mcp.pc = "transcribing"
    /\ files' = {f \in files : f.path # <<"wav", calls>>}
    /\ \E out \in TranscribeOutcomes :
        mcp' = [pc |-> "idle",
                reply |-> IF ~out.ok THEN "transcriptionFailed"
                          ELSE IF Strip(out.text) = <<>> THEN "noSpeech" ELSE "text"]
    /\ UNCHANGED <<cfgVars, sideVars, frames, is_recording, stream, streams, calls, levels,
                   daemonVars, histVars>>

\* ---- auto-stop capture (record_until_silence of src/src/recorder.py) -- *

\* ticks the clock is followed for
MaxClock == 5
\* blocks one capture is followed for
MaxAutoBlocks == 3
\* "max_seconds" of config.json ranges over 1..MaxCap ticks
MaxCap == 3
\* the silence_timeout argument ranges over 0..MaxSilence ticks
MaxSilence == 2
\* the 0.5 s of "(now - speech_start_time) > 0.5": one tick
MinSpeech == 1
\* speech_threshold: float = 500
speech_threshold == 500

\* no record_until_silence call in progress
NoAuto ==
    [pc |-> "idle", frames |-> <<>>, speech_started |-> FALSE, speech_start_time |-> 0,
     last_speech_time |-> 0, start_time |-> 0, done |-> FALSE, max_seconds |-> 0,
     silence_timeout |-> 0, assigned |-> 0]

\* blocks the microphone delivers: silence, a block whose RMS is exactly the
\* threshold, and a block with one loud sample (a click)
AutoBlockKinds == {"quiet", "edge", "click"}

AutoSamples(kind) ==
    [j \in 1..BlockLen |->
        CASE kind = "quiet" -> 0
          [] kind = "edge" -> IF j % 2 = 1 THEN speech_threshold ELSE 0 - speech_threshold
          [] OTHER -> IF j = 1 THEN 2 * speech_threshold ELSE 0]

RECURSIVE SumSq(_)
SumSq(x) == IF x = <<>> THEN 0 ELSE Head(x) * Head(x) + SumSq(Tail(x))

\* "rms > self.speech_threshold" with rms = sqrt(mean(indata ** 2))
IsSpeech(indata) ==
    SumSq(indata) > speech_threshold * speech_threshold * Len(indata)

\* a callback that restarts the speech clock at every speech block
FirstSpeech_always(a) == TRUE

\* "if not speech_started:" in the callback
FirstSpeech(a) == ~a.speech_started

\* "(now - start_time) >= max_seconds"
CapReached(a, now) == now - a.start_time >= a.max_seconds

\* a silence test without the minimum since the first speech block
SilenceStop_noMinimum(a, now) == now - a.last_speech_time > a.silence_timeout

\* "(now - speech_start_time) > 0.5 and (now - last_speech_time) > silence_timeout"
SilenceStop(a, now) ==
    /\ now - a.speech_start_time > MinSpeech
    /\ now - a.last_speech_time > a.silence_timeout

\* the callback of record_until_silence, called with a block of the given kind
RecordCallback(kind) ==
    /\ auto.pc = "capturing"
    /\ Len(auto.frames) < MaxAutoBlocks
    /\ LET now == clock
           speech == IsSpeech(AutoSamples(kind))
           first == speech /\ FirstSpeech(auto)
           a1 == [auto EXCEPT !.frames = Append(@, kind),
                              !.speech_started = @ \/ speech,
                              !.speech_start_time = IF first THEN now ELSE @,
                              !.last_speech_time = IF speech THEN now ELSE @,
                              !.assigned = IF first THEN @ + 1 ELSE @]
           set == IF CapReached(a1, now) THEN TRUE
                  ELSE IF a1.speech_started THEN SilenceStop(a1, now) ELSE FALSE
       IN  auto' = [a1 EXCEPT !.done = @ \/ set]
    /\ UNCHANGED <<cfgVars, auto_stop, clock, tail, att, heard, lock, tailFailed, recVars, daemonVars, mcp, histVars>>

\* a return that looks at the buffer only
AutoReturnsNone_framesOnly(a) == a.frames = <<>>

\* "if not frames or not speech_started: return None"
AutoReturnsNone(a) == a.frames = <<>> \/ ~a.speech_started

RECURSIVE AutoConcatenate(_)
AutoConcatenate(fs) ==
    IF fs = <<>> THEN <<>> ELSE AutoSamples(Head(fs)) \o AutoConcatenate(Tail(fs))

\* voice_record, auto-stop path, up to the InputStream being open
VoiceRecordAuto ==
    /\ prog = "mcp"
    /\ auto_stop
    /\ mcp.pc = "idle"
    /\ auto.pc = "idle"
    /\ \E st \in 0..MaxSilence, opened \in BOOLEAN :
        IF opened
        THEN /\ auto' = [NoAuto EXCEPT !.pc = "capturing", !.start_time = clock,
                                       !.max_seconds = auto.max_seconds,
                                       !.silence_timeout = st]
             /\ mcp' = [mcp EXCEPT !.pc = "recording"]
        ELSE /\ auto' = auto
             /\ mcp' = [mcp EXCEPT !.reply = "failed"]
    /\ UNCHANGED <<cfgVars, auto_stop, clock, tail, att, heard, lock, tailFailed, recVars, daemonVars, histVars>>

\* the wait loop sees done set: the stream is closed, record_until_silence
\* returns and voice_record goes on.  Of the locals only the buffer is kept
\* in the state, for the record of what the call had captured.
RecordReturn ==
    /\ auto.pc = "capturing"
    /\ auto.done
    /\ auto' = [NoAuto EXCEPT !.frames = auto.frames, !.max_seconds = auto.max_seconds]
    /\ IF AutoReturnsNone(auto)
       THEN /\ mcp' = [pc |-> "idle", reply |-> "noSpeech"]
            /\ files' = files
       ELSE \E saveOk \in BOOLEAN :
            LET wav == SaveWav(<<"wav", calls>>, AutoConcatenate(auto.frames))
            IN  IF saveOk
                THEN /\ files' = files \cup {wav}
                     /\ mcp' = [mcp EXCEPT !.pc = "transcribing"]
                ELSE /\ files' = files \cup {[wav EXCEPT !.data = <<>>]}
                     /\ mcp' = [pc |-> "idle", reply |-> "failed"]
    /\ UNCHANGED <<cfgVars, auto_stop, clock, tail, att, heard, lock, tailFailed, frames, is_recording, stream, streams,
                   calls, levels, daemonVars, histVars>>

\* time passes
Tick ==
    /\ auto_stop
    /\ clock < MaxClock
    /\ clock' = clock + 1
    /\ UNCHANGED <<cfgVars, auto_stop, auto, tail, att, heard, lock, tailFailed, recVars, daemonVars, mcp, histVars>>

\* ---- get_tail_wav called directly ------------------------------------- *

\* the requested length int(self.sample_rate * seconds) ranges over 0..MaxTail
MaxTail == 5

\* no get_tail_wav call yet
NoTail == [samples_needed |-> 0, res |-> "none"]

\* VoiceRecorder.get_tail_wav(seconds) with int(sample_rate * seconds) = k; the
\* clip of the call before has been unlinked by its caller
GetTailWav ==
    /\ prog = "recorder"
    /\ \E k \in 0..MaxTail :
        IF frames = <<>>
        THEN /\ tail' = [samples_needed |-> k, res |-> "none"]
             /\ tails' = {}
             /\ ret' = Call("tail", "none")
        ELSE /\ tail' = [samples_needed |-> k, res |-> "wav"]
             /\ tails' = {SaveWav(<<"tail", calls>>, TailAudio(frames, k))}
             /\ ret' = Call("tail", "wav")
    /\ prev' = ret
    /\ UNCHANGED <<cfgVars, autoVars, att, heard, lock, tailFailed, recVars, state, watchers, workers, clipboard,
                   mcp, own, dropped, stopRuns>>

\* start() called directly
TailStart ==
    /\ prog = "recorder"
    /\ ~is_recording
    /\ \E o \in StartOutcomes : RecorderStart(o)
    /\ UNCHANGED <<cfgVars, sideVars, daemonVars, mcp, stopRuns>>

\* stop() called directly
TailStop ==
    /\ prog = "recorder"
    /\ \E saveOk \in BOOLEAN : RecorderStop(saveOk)
    /\ UNCHANGED <<cfgVars, sideVars, daemonVars, mcp, stopRuns>>

\* ---- a transcription attempt (src/src/transcriber.py) ---------------- *

\* samples of the WAV files handed to the transcriber
MaxTrimLen == 5
\* the frame rate of those files, scaled down: a window is sr // 10 samples
TrimRate == 10
\* trim_threshold: int = 300
trim_threshold == 300

\* no transcription attempt
NoAttempt == [pc |-> "none", backend |-> "none", trim_silence |-> FALSE, path |-> <<>>]

\* the backends of create_transcriber
Backends == {"openai_api", "faster_whisper"}

\* the sample values of the files: silent, at the trim threshold, above it
TrimSampleValues == {0, trim_threshold, trim_threshold + 1}

\* the audio contents of the files
TrimAudios ==
    UNION {[1..n -> TrimSampleValues] : n \in 0..MaxTrimLen}

\* "window = sr // 10"
TrimWindow(sr) == sr \div 10

\* "sr // 4", the 250 ms of padding
TrimPad(sr) == sr \div 4

\* "range(0, len(abs_audio) - window, window)", as offsets
WindowStarts(n, window) == {i \in 0..(n - 1) : i < n - window /\ i % window = 0}

\* the windows whose RMS is above the threshold, by index
WindowsAbove(audio, sr) ==
    LET window == TrimWindow(sr)
    IN  {i \div window : i \in {k \in WindowStarts(Len(audio), window) :
            SumSq(SubSeq(audio, k + 1, k + window)) >
                trim_threshold * trim_threshold * window}}

SetMin(S) == CHOOSE x \in S : \A y \in S : x <= y
SetMax(S) == CHOOSE x \in S : \A y \in S : x >= y

\* the two early returns of _trim: "if len(abs_audio) < window" and
\* "if len(above) == 0", where it returns audio_path
NothingToTrim(audio, sr) ==
    Len(audio) < TrimWindow(sr) \/ WindowsAbove(audio, sr) = {}

\* "trimmed = audio[start:end]" with the start and end _trim computes
Trimmed(audio, sr) ==
    LET window == TrimWindow(sr)
        above == WindowsAbove(audio, sr)
        s0 == SetMin(above) * window - TrimPad(sr)
        e0 == (SetMax(above) + 1) * window + TrimPad(sr)
        start == IF s0 < 0 THEN 0 ELSE s0
        end == IF e0 > Len(audio) THEN Len(audio) ELSE e0
    IN  SubSeq(audio, start + 1, end)

\* what a transcription attempt leaves alone: everything but the files on disk
nonAttemptVars ==
    <<cfgVars, autoVars, tail, heard, lock, tailFailed, frames, is_recording, stream,
      streams, calls, levels, daemonVars, mcp, histVars>>

\* the file the attempt is about
AudioPath == <<"wav", 1>>
\* the file _trim makes with tempfile.mkstemp
TrimPath == <<"trim", 1>>

\* transcribe of OpenAIWhisperAPI: returns the text or raises
ApiTranscribe ==
    /\ att.pc = "called"
    /\ att.backend = "openai_api"
    /\ \E ok \in BOOLEAN : att' = [att EXCEPT !.pc = IF ok THEN "returned" ELSE "raised"]
    /\ files' = files
    /\ UNCHANGED nonAttemptVars

\* transcribe of FasterWhisperLocal up to the call of the model:
\* _ensure_model, which may raise, and _trim, which writes the copy, or
\* returns audio_path, also when writing the copy fails (except Exception)
LocalTrim ==
    /\ att.pc = "called"
    /\ att.backend = "faster_whisper"
    /\ \E ensured \in BOOLEAN, written \in BOOLEAN :
        LET audio == FromBytes((CHOOSE f \in files : f.path = AudioPath).data)
        IN  IF ~ensured
            THEN /\ att' = [att EXCEPT !.pc = "raised"]
                 /\ files' = files
            ELSE IF ~att.trim_silence \/ NothingToTrim(audio, TrimRate)
            THEN /\ att' = [att EXCEPT !.pc = "model", !.path = AudioPath]
                 /\ files' = files
            ELSE IF written
            THEN /\ att' = [att EXCEPT !.pc = "model", !.path = TrimPath]
                 /\ files' = files \cup {SaveWav(TrimPath, Trimmed(audio, TrimRate))}
            ELSE /\ att' = [att EXCEPT !.pc = "model", !.path = AudioPath]
                 /\ files' = files \cup {SaveWav(TrimPath, <<>>)}
    /\ UNCHANGED nonAttemptVars

\* "if path != audio_path:" before os.unlink(path)
UnlinksCopy(a) == a.path # AudioPath

\* the rest of transcribe of FasterWhisperLocal: the model runs on path; when it
\* returns the copy is unlinked, when it raises the lines after it do not run
LocalModel ==
    /\ att.pc = "model"
    /\ \E ok \in BOOLEAN :
        IF ok
        THEN /\ att' = [att EXCEPT !.pc = "returned"]
             /\ files' = IF UnlinksCopy(att)
                         THEN {f \in files : f.path # att.path}
                         ELSE files
        ELSE /\ att' = [att EXCEPT !.pc = "raised"]
             /\ files' = files
    /\ UNCHANGED nonAttemptVars

\* the finally block of the caller (_transcribe_and_paste, _keyword_watch_loop,
\* _transcribe of server.py): os.unlink(audio_path)
CallerFinally ==
    /\ att.pc \in {"returned", "raised"}
    /\ att' = [att EXCEPT !.pc = "ended"]
    /\ files' = {f \in files : f.path # AudioPath}
    /\ UNCHANGED nonAttemptVars

\* ---- the band levels of a block (src/src/recorder.py) ------------------ *

\* "NUM_BANDS = 7  # match overlay bar count"
NUM_BANDS == 7
\* "sample_rate: int = 16000"
sample_rate == 16000

\* the lengths of the blocks handed to _compute_bands
BandBlockLens == {0, 1, 2, 5, 16, 128}

\* band_edges = np.logspace(log10(80), log10(min(7500, sample_rate / 2)),
\* NUM_BANDS + 1), in hundredths of a hertz
BandEdges == <<8000, 15304, 29276, 56004, 107135, 204947, 392059, 750000>>

\* "mask = (freqs >= band_edges[i]) & (freqs < band_edges[i + 1])" with
\* freqs = np.fft.rfftfreq(n, d=1.0 / sample_rate), bin k at k * sample_rate / n
\* for k = 0 .. n // 2: the bins of band i (bands counted from 1)
Mask(i, n) ==
    {k \in 0..(n \div 2) : /\ 100 * k * sample_rate >= BandEdges[i] * n
                            /\ 100 * k * sample_rate < BandEdges[i + 1] * n}

\* the bands for which mask.any() holds
BandsWithBins(n) == {i \in 1..NUM_BANDS : Mask(i, n) # {}}

\* the least db: "20 * np.log10(max(band_power, 1e-10)) - 20" at band_power = 0
DbFloor == -220

\* the values of db followed, in whole decibels: the least, the two on each
\* side of either end of the clamp, one between, and that of a full-scale tone
\* in one bin of a block of 128 samples
DbValues == {DbFloor, -11, -10, 15, 40, 41, 112}

\* levels are counted in fiftieths: the 50 of "(db + 10) / 50"
LevelScale == 50

\* a level that is not clamped
Level_unclamped(db) == db + 10

\* "level = max(0.0, min(1.0, (db + 10) / 50))", in fiftieths
Level(db) ==
    LET x == db + 10
        low == IF x < LevelScale THEN x ELSE LevelScale
    IN  IF low > 0 THEN low ELSE 0

\* no _compute_bands call yet
NoBands == [pc |-> "none", n |-> 0, zero |-> TRUE, levels |-> <<>>]

\* the audio callback is called with a block of n samples, all zero or not,
\* and calls self._compute_bands(indata)
BandsCalled ==
    /\ bands.pc \in {"none", "returned"}
    /\ \E n \in BandBlockLens, zero \in BOOLEAN :
        bands' = [pc |-> "called", n |-> n, zero |-> zero, levels |-> <<>>]
    /\ UNCHANGED <<prog, auto_send_keywords, auto_stop_on_keyword, procs, pid_file,
                   sideVars, recVars, daemonVars, mcp, histVars>>

\* _compute_bands from its first line to its return.  The magnitudes of the
\* FFT are not computed: db of a band with bins is any of DbValues, and
\* DbFloor in every band for a block of zeros, whose spectrum is zero.
ComputeBands ==
    /\ bands.pc = "called"
    /\ IF bands.n < 2
       THEN bands' = [bands EXCEPT !.pc = "returned",
                                   !.levels = [i \in 1..NUM_BANDS |-> 0]]
       ELSE \E db \in [BandsWithBins(bands.n) ->
                            IF bands.zero THEN {DbFloor} ELSE DbValues] :
               bands' = [bands EXCEPT !.pc = "returned",
                                      !.levels = [i \in 1..NUM_BANDS |->
                                                     IF i \in DOMAIN db
                                                     THEN Level(db[i]) ELSE 0]]
    /\ UNCHANGED <<prog, auto_send_keywords, auto_stop_on_keyword, procs, pid_file,
                   sideVars, recVars, daemonVars, mcp, histVars>>

\* ---- the start-up of the daemon processes (src/hotkey_daemon.py) ------- *

\* the processes, by PID
Daemons == 1..MaxDaemons

\* a process that has not been started
NoProc == [pc |-> "none", old_pid |-> 0]

\* PID_FILE when it does not exist, and when it exists without content
AbsentFile == [exists |-> FALSE, pid |-> 0]
EmptyFile == [exists |-> TRUE, pid |-> 0]

\* the processes that are alive: started, not killed, not exited
Alive == {p \in Daemons : procs[p].pc \notin {"none", "dead", "exited"}}

\* what the start-up leaves alone
nonStartupVars ==
    <<prog, auto_send_keywords, auto_stop_on_keyword, bands, sideVars, recVars,
      daemonVars, mcp, histVars>>

\* "python hotkey_daemon.py": process p starts and enters main()
DaemonLaunch(p) ==
    /\ procs[p].pc = "none"
    /\ procs' = [procs EXCEPT ![p].pc = "exists"]
    /\ pid_file' = pid_file
    /\ UNCHANGED nonStartupVars

\* "if not os.path.exists(PID_FILE): return" in _kill_existing
KillExistingTest(p) ==
    /\ procs[p].pc = "exists"
    /\ procs' = [procs EXCEPT ![p].pc = IF pid_file.exists THEN "read" ELSE "write"]
    /\ pid_file' = pid_file
    /\ UNCHANGED nonStartupVars

\* "with open(PID_FILE) as f: old_pid = int(f.read().strip())": open raises
\* FileNotFoundError when the file is gone by now, int raises ValueError on an
\* empty file; both are caught and the unlink follows
KillExistingRead(p) ==
    /\ procs[p].pc = "read"
    /\ procs' = IF pid_file.exists /\ pid_file.pid # 0
                THEN [procs EXCEPT ![p] = [pc |-> "kill", old_pid |-> pid_file.pid]]
                ELSE [procs EXCEPT ![p].pc = "unlink"]
    /\ pid_file' = pid_file
    /\ UNCHANGED nonStartupVars

\* "os.kill(old_pid, signal.SIGTERM)": the process dies where it is, without
\* its atexit handlers; ProcessLookupError for a process that is gone is caught
KillExistingKill(p) ==
    /\ procs[p].pc = "kill"
    /\ LET q == procs[p].old_pid
       IN  procs' = [r \in Daemons |->
                        IF r = p THEN [pc |-> "unlink", old_pid |-> 0]
                        ELSE IF r = q /\ q \in Alive THEN [pc |-> "dead", old_pid |-> 0]
                        ELSE procs[r]]
    /\ pid_file' = pid_file
    /\ UNCHANGED nonStartupVars

\* "os.unlink(PID_FILE)" at the end of _kill_existing; OSError is caught.
\* While another process has the file open for writing the unlink succeeds
\* on POSIX and fails on Windows.
KillExistingUnlink(p) ==
    /\ procs[p].pc = "unlink"
    /\ procs' = [procs EXCEPT ![p].pc = "write"]
    /\ \E removed \in IF \E q \in Daemons : procs[q].pc = "writing"
                       THEN BOOLEAN ELSE {TRUE} :
        pid_file' = IF removed THEN AbsentFile ELSE pid_file
    /\ UNCHANGED nonStartupVars

\* "with open(PID_FILE, "w") as f:" in _write_pid: the file is created or
\* truncated
WritePidOpen(p) ==
    /\ procs[p].pc = "write"
    /\ procs' = [procs EXCEPT ![p].pc = "writing"]
    /\ pid_file' = EmptyFile
    /\ UNCHANGED nonStartupVars

\* "f.write(str(os.getpid()))" and the end of the with block, where the text
\* reaches the file; a file unlinked meanwhile stays gone.  Start-up is over:
\* atexit.register(_cleanup_pid) and the rest of main() follow.
WritePidClose(p) ==
    /\ procs[p].pc = "writing"
    /\ procs' = [procs EXCEPT ![p].pc = "running"]
    /\ pid_file' = IF pid_file.exists THEN [exists |-> TRUE, pid |-> p] ELSE pid_file
    /\ UNCHANGED nonStartupVars

\* main() returns (no configuration, no keyboard module, the hotkey cannot be
\* registered, KeyboardInterrupt in kb.wait()) and _cleanup_pid, registered
\* with atexit, unlinks PID_FILE
DaemonExit(p) ==
    /\ procs[p].pc = "running"
    /\ procs' = [procs EXCEPT ![p].pc = "exited"]
    /\ pid_file' = AbsentFile
    /\ UNCHANGED nonStartupVars

\* ---- specifications --------------------------------------------------- *

\* no band levels asked for, no daemon process started, no PID file
InitAlone ==
    /\ bands = NoBands
    /\ procs = [p \in Daemons |-> NoProc]
    /\ pid_file = AbsentFile

\* the "auto_send_keywords" lists of config.json the model starts from
RawKeywordConfigs == { <<>>, << <<"G", "o", " ">> >> }

\* the recorder, the daemon state and the tool state after construction
InitProgram ==
    /\ frames = <<>>
    /\ is_recording = FALSE
    /\ stream = 0
    /\ streams = [s \in Sessions |-> [st |-> "none", n |-> 0]]
    /\ calls = 0
    /\ tails = {}
    /\ levels = <<0, 0>>
    /\ state = [recording |-> FALSE, busy |-> FALSE]
    /\ watchers = [s \in Sessions |-> NoWatcher]
    /\ workers = [s \in Sessions |-> NoWorker]
    /\ clipboard = [text |-> <<>>, enter |-> FALSE]
    /\ mcp = [pc |-> "idle", reply |-> "none"]
    /\ ret = [op |-> "none", res |-> "none", n |-> 0]
    /\ prev = ret
    /\ own = <<>>
    /\ dropped = {}
    /\ stopRuns = [s \in Sessions |-> 0]

Init ==
    /\ prog \in {"daemon", "mcp"}
    /\ \E raw \in RawKeywordConfigs :
        auto_send_keywords = IF prog = "daemon" THEN CleanKeywords(raw) ELSE <<>>
    /\ auto_stop_on_keyword \in IF prog = "daemon" /\ auto_send_keywords # <<>>
                                THEN BOOLEAN ELSE {TRUE}
    /\ auto_stop = FALSE
    /\ clock = 0
    /\ auto = NoAuto
    /\ tail = NoTail
    /\ att = NoAttempt
    /\ heard = <<>>
    /\ lock = Unlocked
    /\ tailFailed = {}
    /\ InitAlone
    /\ files = {}
    /\ InitProgram

\* the audio thread of a running stream delivers a block
AudioCallback ==
    /\ \E s \in Sessions : ToggleCb(s)
    /\ UNCHANGED <<cfgVars, sideVars, daemonVars, mcp, stopRuns>>

OnHotkey == HotkeyBusy \/ HotkeyStart \/ HotkeyStop

KeywordWatchLoop ==
    \E w \in Sessions : WatchPoll(w) \/ WatchTranscribed(w)

TranscribeAndPaste ==
    \E k \in Sessions : WorkerTranscribed(k) \/ WorkerDeliver(k)

Next ==
    \/ AudioCallback
    \/ OnHotkey
    \/ KeywordWatchLoop
    \/ TranscribeAndPaste
    \/ VoiceRecord
    \/ VoiceStop
    \/ McpTranscribed

Spec == Init /\ [][Next]_vars

\* the MCP server configured with auto_stop_on_silence = true
InitAuto ==
    /\ prog = "mcp"
    /\ auto_send_keywords = <<>>
    /\ auto_stop_on_keyword = TRUE
    /\ auto_stop = TRUE
    /\ clock = 1
    /\ \E cap \in 1..MaxCap : auto = [NoAuto EXCEPT !.max_seconds = cap]
    /\ tail = NoTail
    /\ att = NoAttempt
    /\ heard = <<>>
    /\ lock = Unlocked
    /\ tailFailed = {}
    /\ InitAlone
    /\ files = {}
    /\ InitProgram

NextAuto ==
    \/ VoiceRecordAuto
    \/ \E kind \in AutoBlockKinds : RecordCallback(kind)
    \/ RecordReturn
    \/ McpTranscribed
    \/ Tick

SpecAuto == InitAuto /\ [][NextAuto]_vars

\* one VoiceRecorder and a caller of its methods
InitTail ==
    /\ prog = "recorder"
    /\ auto_send_keywords = <<>>
    /\ auto_stop_on_keyword = TRUE
    /\ auto_stop = FALSE
    /\ clock = 0
    /\ auto = NoAuto
    /\ tail = NoTail
    /\ att = NoAttempt
    /\ heard = <<>>
    /\ lock = Unlocked
    /\ tailFailed = {}
    /\ InitAlone
    /\ files = {}
    /\ InitProgram

NextTail ==
    \/ TailStart
    \/ AudioCallback
    \/ GetTailWav
    \/ TailStop

SpecTail == InitTail /\ [][NextTail]_vars

\* the daemon with auto-send keywords and auto_stop_on_keyword
InitWatch ==
    /\ prog = "daemon"
    /\ \E raw \in RawKeywordConfigs : auto_send_keywords = CleanKeywords(raw)
    /\ auto_send_keywords # <<>>
    /\ auto_stop_on_keyword = TRUE
    /\ auto_stop = FALSE
    /\ clock = 0
    /\ auto = NoAuto
    /\ tail = NoTail
    /\ att = NoAttempt
    /\ heard = <<>>
    /\ lock = Unlocked
    /\ tailFailed = {}
    /\ InitAlone
    /\ files = {}
    /\ InitProgram

NextWatch ==
    \/ AudioCallback
    \/ OnHotkey
    \/ \E w \in Sessions : WatchPollTest(w) \/ WatchTail(w) \/ WatchTranscribed(w)
    \/ TranscribeAndPaste

SpecWatch == InitWatch /\ [][NextWatch]_vars

\* the daemon of SpecWatch with the lock taken and given back in steps of
\* their own
NextLock ==
    \/ AudioCallback
    \/ HotkeyAcquire
    \/ LockedBusy
    \/ LockedStart
    \/ LockedStop
    \/ \E w \in Sessions : WatchPoll(w) \/ WatchResult(w) \/ WatchAcquire(w) \/ WatchLocked(w)
    \/ TranscribeAndPaste

SpecLock == InitWatch /\ [][NextLock]_vars

\* the daemon, without keyword watch, at the start of _transcribe_and_paste for
\* its first recording of one block: the transcript the backend will return
\* and the configured keywords are drawn from MatchTexts and MatchConfigs
InitMatch ==
    /\ prog = "daemon"
    /\ \E raw \in MatchConfigs : auto_send_keywords = CleanKeywords(raw)
    /\ auto_stop_on_keyword = FALSE
    /\ auto_stop = FALSE
    /\ clock = 0
    /\ auto = NoAuto
    /\ tail = NoTail
    /\ att = NoAttempt
    /\ heard \in MatchTexts
    /\ lock = Unlocked
    /\ tailFailed = {}
    /\ InitAlone
    /\ frames = <<>>
    /\ is_recording = FALSE
    /\ stream = 0
    /\ streams = [s \in Sessions |-> IF s = 1 THEN [st |-> "closed", n |-> 0]
                                              ELSE [st |-> "none", n |-> 0]]
    /\ calls = 1
    /\ files = {SaveWav(<<"wav", 1>>, Concatenate(<< <<1, 1>> >>))}
    /\ tails = {}
    /\ levels = <<1, 1>>
    /\ state = [recording |-> FALSE, busy |-> TRUE]
    /\ watchers = [s \in Sessions |-> NoWatcher]
    /\ workers = [s \in Sessions |-> IF s = 1 THEN [NoWorker EXCEPT !.pc = "transcribing"]
                                               ELSE NoWorker]
    /\ clipboard = [text |-> <<>>, enter |-> FALSE]
    /\ mcp = [pc |-> "idle", reply |-> "none"]
    /\ ret = [op |-> "stop", res |-> "wav", n |-> 0]
    /\ prev = [op |-> "start", res |-> "ok", n |-> 1]
    /\ own = <<>>
    /\ dropped = {}
    /\ stopRuns = [s \in Sessions |-> IF s = 1 THEN 1 ELSE 0]

NextMatch ==
    \/ \E k \in Sessions : MatchTranscribed(k)
    \/ \E k \in Sessions : WorkerDeliver(k)

SpecMatch == InitMatch /\ [][NextMatch]_vars

\* a WAV file on disk and a transcriber about to be called with it
InitTranscribe ==
    /\ prog = "daemon"
    /\ auto_send_keywords = <<>>
    /\ auto_stop_on_keyword = TRUE
    /\ auto_stop = FALSE
    /\ clock = 0
    /\ auto = NoAuto
    /\ tail = NoTail
    /\ \E b \in Backends, ts \in BOOLEAN :
        att = [pc |-> "called", backend |-> b, trim_silence |-> ts, path |-> AudioPath]
    /\ heard = <<>>
    /\ lock = Unlocked
    /\ tailFailed = {}
    /\ InitAlone
    /\ \E audio \in TrimAudios : files = {SaveWav(AudioPath, audio)}
    /\ InitProgram

NextTranscribe ==
    \/ ApiTranscribe
    \/ LocalTrim
    \/ LocalModel
    \/ CallerFinally

SpecTranscribe == InitTranscribe /\ [][NextTranscribe]_vars

\* the daemon process after construction, before any hotkey press
InitDaemon ==
    /\ prog = "daemon"
    /\ auto_send_keywords = <<>>
    /\ auto_stop_on_keyword = TRUE
    /\ auto_stop = FALSE
    /\ clock = 0
    /\ auto = NoAuto
    /\ tail = NoTail
    /\ att = NoAttempt
    /\ heard = <<>>
    /\ lock = Unlocked
    /\ tailFailed = {}
    /\ files = {}
    /\ InitProgram

\* the recorder of the daemon before the first block
InitBands == InitDaemon /\ InitAlone

NextBands ==
    \/ BandsCalled
    \/ ComputeBands

SpecBands == InitBands /\ [][NextBands]_vars

\* no daemon process started and no PID file
InitStartup ==
    /\ bands = NoBands
    /\ procs = [p \in Daemons |-> NoProc]
    /\ pid_file = AbsentFile
    /\ InitDaemon

NextStartup ==
    \E p \in Daemons :
        \/ DaemonLaunch(p)
        \/ KillExistingTest(p)
        \/ KillExistingRead(p)
        \/ KillExistingKill(p)
        \/ KillExistingUnlink(p)
        \/ WritePidOpen(p)
        \/ WritePidClose(p)
        \/ DaemonExit(p)

SpecStartup == InitStartup /\ [][NextStartup]_vars

\* ---- claims ----------------------------------------------------------- *

\* a step that calls VoiceRecorder.stop
StopCalled == ret'.n # ret.n /\ ret'.op = "stop"

\* a step in which some stream's callback runs
CallbackRan == \E s \in Sessions : streams'[s].n > streams[s].n

\* C1: for every session the stop path (_stop_and_transcribe) runs at most once,
\* under every interleaving of hotkey presses and keyword watch triggers.
C1_StopAtMostOncePerSession == \A s \in Sessions : stopRuns[s] <= 1

\* C1 witness: the session was stopped by a hotkey press while its own watch
\* thread waits for a tail transcription whose result may hold a keyword.
C1_Witness ==
    \E s \in Sessions :
        /\ calls = s
        /\ stopRuns[s] = 1
        /\ watchers[s].pc = "transcribe"
        /\ watchers[s].req = s

\* C2: the result of a tail transcription requested during session S never
\* triggers a stop once S has left Recording, in particular not of a later session.
C2_StaleTailResultDiscarded ==
    [][\A w \in Sessions :
          (/\ watchers[w].pc = "transcribe"
           /\ watchers'[w].pc = "done"
           /\ (watchers[w].req # calls \/ ~state.recording))
          => stopRuns' = stopRuns]_vars

\* C3: after the session it was started with has left Recording, a keyword watch
\* thread performs no further tail request: every request of the thread started
\* with session w is made during session w.
C3_NoTailRequestAfterOwnSession == \A w \in Sessions : watchers[w].req \in {0, w}

\* C4: after any failure the daemon comes back to recording = false and
\* busy = false: busy is set only while a transcription worker that will clear
\* it is still running.
C4_BusyIsCleared ==
    state.busy => \E k \in Sessions : workers[k].pc = "transcribing"

\* C5: at most one capture session (running input stream) per recorder.
C5_AtMostOneCaptureSession ==
    Cardinality({s \in Sessions : streams[s].st = "running"}) <= 1

\* C6: when start() fails because the device cannot be opened, the recorder is
\* not marked as recording, holds no stream, and the caller's flag is false.
C6_FailedStartRevertsToIdle ==
    (ret.op = "start" /\ ret.res = "openFail")
        => (~is_recording /\ stream = 0 /\ ~state.recording)

\* C7: the WAV stop() returns holds exactly the blocks the session's stream
\* appended since the matching start(), each once, in arrival order.
C7_WavIsTheSessionsBlocks ==
    [][(StopCalled /\ ret'.res = "wav")
          => \E f \in files' :
                /\ f.path = <<"wav", calls>>
                /\ FromBytes(f.data) = Concatenate(own)]_vars

\* C8: the callback appends a block and sends levels only while the recorder is
\* recording; a callback that runs with the flag cleared changes neither.
C8_AppendsOnlyWhileRecording ==
    [][/\ (Len(frames') > Len(frames) \/ levels' # levels) => is_recording
       /\ (CallbackRan /\ ~is_recording) => (frames' = frames /\ levels' = levels)]_vars

\* C8 witness: stop() has cleared the flag and a still running stream had a
\* block refused.
C8_Witness ==
    \E s \in dropped :
        /\ streams[s].st = "running"
        /\ ~is_recording
        /\ ret.op = "stop"
        /\ frames = <<>>

\* C9: stop() with zero blocks in the buffer returns None and writes no file;
\* the caller reports an empty recording and starts no transcription.
C9_EmptyStopReturnsNone ==
    [][(StopCalled /\ frames = <<>>)
          => /\ ret'.res = "none"
             /\ files' = files
             /\ workers' = workers
             /\ ~state'.busy
             /\ mcp'.pc = "idle"
             /\ (prog = "mcp" => mcp'.reply = "noAudio")]_vars

\* C9 witness: a session was started, captured nothing, and was stopped.
C9_Witness ==
    /\ prev.op = "start"
    /\ prev.res = "ok"
    /\ ret.op = "stop"
    /\ ret.res = "none"

\* C10: a stop() that directly follows a stop() returns None, writes no WAV and
\* leaves the recorder as it was.
C10_SecondStopIsNoOp ==
    [][(StopCalled /\ ret.op = "stop")
          => /\ ret'.res = "none"
             /\ files' = files
             /\ UNCHANGED <<frames, is_recording, stream, streams>>]_vars

\* C10 witness: a stop() that returned a WAV was followed by a second stop().
C10_Witness ==
    /\ prev.op = "stop"
    /\ prev.res = "wav"
    /\ ret.op = "stop"
    /\ ret.res = "none"

\* C11: after every stop(), whatever it returned or raised, the recorder holds
\* no blocks, has no stream and is not recording, until the next start(); and
\* the start() that follows a stop() begins with an empty buffer.
C11_StopClearsTheSession ==
    [][/\ ret'.op = "stop" => (frames' = <<>> /\ stream' = 0 /\ ~is_recording')
       /\ (ret'.n # ret.n /\ ret'.op = "start" /\ ret.op = "stop") => frames' = <<>>]_vars

\* C11 witness: a stop() that failed while writing the WAV was followed by a
\* start().
C11_Witness ==
    /\ prev.op = "stop"
    /\ prev.res = "saveFail"
    /\ ret.op = "start"
    /\ frames = <<>>

\* a step in which the callback of record_until_silence runs
RecordCallbackRan ==
    /\ auto.pc = "capturing"
    /\ auto'.pc = "capturing"
    /\ Len(auto'.frames) = Len(auto.frames) + 1

\* a step in which record_until_silence returns
RecordReturned == auto.pc = "capturing" /\ auto'.pc = "idle"

\* the above-threshold blocks among the captured ones
SpeechBlocks(fs) == {i \in 1..Len(fs) : IsSpeech(AutoSamples(fs[i]))}

\* C12: at a block the detector signals stop exactly when the elapsed time has
\* reached max_seconds, or speech has started, more than 0.5 s have passed since
\* the first speech block and more than silence_timeout since the last one;
\* without speech only the cap signals stop.
C12_StopSignalledExactlyWhen ==
    [][RecordCallbackRan =>
          LET elapsed == clock - auto'.start_time
              sinceFirst == clock - auto'.speech_start_time
              sinceLast == clock - auto'.last_speech_time
              cap == elapsed >= auto'.max_seconds
              silence == /\ auto'.speech_started
                         /\ sinceFirst > MinSpeech
                         /\ sinceLast > auto'.silence_timeout
          IN  /\ auto'.done <=> (auto.done \/ cap \/ silence)
              /\ (~auto'.speech_started /\ auto'.done /\ ~auto.done) => cap]_vars

\* C12 witness: stop was signalled by the silence rule, before the cap.
C12_Witness ==
    /\ auto.pc = "capturing"
    /\ auto.done
    /\ auto.speech_started
    /\ clock - auto.start_time < auto.max_seconds
    /\ Len(auto.frames) >= 2

\* C13: a single above-threshold block followed only by below-threshold blocks
\* never causes a stop by silence, for every silence_timeout.
C13_ClickDoesNotStop ==
    [][(/\ RecordCallbackRan
        /\ Cardinality(SpeechBlocks(auto'.frames)) = 1
        /\ auto'.done
        /\ ~auto.done)
          => clock - auto'.start_time >= auto'.max_seconds]_vars

\* C14: the capture never lasts beyond max_seconds without the stop being
\* signalled, whatever blocks arrive and whatever the speech state.
C14_CaptureIsCapped ==
    (auto.pc = "capturing" /\ clock - auto.start_time > auto.max_seconds) => auto.done

\* C15: when no captured block exceeded the threshold, record_until_silence
\* returns no WAV and voice_record answers "no speech" without transcribing.
C15_NoSpeechNoWav ==
    [][(RecordReturned /\ SpeechBlocks(auto.frames) = {})
          => /\ files' = files
             /\ mcp'.pc = "idle"
             /\ mcp'.reply = "noSpeech"]_vars

\* C15 witness: a capture that held blocks, none above the threshold, was
\* answered with "no speech".
C15_Witness ==
    /\ auto.pc = "idle"
    /\ auto.frames # <<>>
    /\ SpeechBlocks(auto.frames) = {}
    /\ mcp.reply = "noSpeech"
    /\ mcp.pc = "idle"

\* C16: within one capture speech_started never falls back, speech_start_time
\* is assigned exactly once, at the first above-threshold block, and once
\* speech has started last_speech_time >= speech_start_time and never decreases.
C16_SpeechTimesAreOrdered ==
    [][/\ auto'.pc = "capturing" =>
            /\ auto'.speech_started <=> SpeechBlocks(auto'.frames) # {}
            /\ auto'.assigned = IF auto'.speech_started THEN 1 ELSE 0
            /\ auto'.speech_started => auto'.last_speech_time >= auto'.speech_start_time
       /\ (auto.pc = "capturing" /\ auto'.pc = "capturing" /\ auto.speech_started) =>
            /\ auto'.speech_started
            /\ auto'.speech_start_time = auto.speech_start_time
            /\ auto'.last_speech_time >= auto.last_speech_time]_vars

\* C16 witness: two above-threshold blocks arrived at different times.
C16_Witness ==
    /\ auto.pc = "capturing"
    /\ Cardinality(SpeechBlocks(auto.frames)) >= 2
    /\ auto.last_speech_time > auto.speech_start_time
    /\ auto.assigned = 1

\* a step that calls VoiceRecorder.get_tail_wav
TailCalled == ret'.n # ret.n /\ ret'.op = "tail"

\* the samples of the clip a get_tail_wav call left on disk
ClipOf(fs) == FromBytes((CHOOSE f \in fs : TRUE).data)

\* C17: get_tail_wav returns at most the requested number of samples and leaves
\* the buffer as it was; the stop() that follows returns every appended block.
C17_TailIsBoundedAndReadOnly ==
    [][/\ TailCalled =>
            /\ frames' = frames
            /\ tail'.res = "wav" => Len(ClipOf(tails')) <= tail'.samples_needed
       /\ (StopCalled /\ ret.op = "tail" /\ ret'.res = "wav") =>
            \E f \in files' : FromBytes(f.data) = Concatenate(own)]_vars

\* C18: for a buffer of T samples and a request of k samples the clip is the
\* last min(k, T) samples of the concatenated blocks; for an empty buffer
\* get_tail_wav returns None and writes no file.
C18_TailIsTheLastSamples ==
    [][TailCalled =>
          IF frames = <<>>
          THEN tail'.res = "none" /\ tails' = {}
          ELSE LET all == Concatenate(frames)
                   k == tail'.samples_needed
                   m == IF k < Len(all) THEN k ELSE Len(all)
               IN  /\ tail'.res = "wav"
                   /\ ClipOf(tails') = SubSeq(all, Len(all) - m + 1, Len(all))]_vars

\* C19: whatever the callback and stop() do meanwhile, a get_tail_wav call of
\* the keyword watch thread returns None or a clip; it never fails.
C19_TailNeverFails == \A w \in Sessions : watchers[w].pc # "crashed"

\* C20: once a transcription attempt has ended, by a text or by an exception,
\* no temporary WAV file made for it exists any more.
C20_NoTempFileAfterAttempt == att.pc = "ended" => files = {}

\* C22: a keyword watch thread is started only in the step of a hotkey press
\* that takes the daemon from idle to recording with a start() that succeeded,
\* for the session just started, and only with a trigger phrase configured:
\* never by a failed start(), by a stop press, or with an empty trigger list.
C22_WatchStartsOnlyWithRecording ==
    [][\A w \in Sessions :
          (watchers[w].pc = "none" /\ watchers'[w].pc # "none")
          => /\ prog = "daemon"
             /\ auto_send_keywords # <<>>
             /\ ret'.n # ret.n /\ ret'.op = "start" /\ ret'.res = "ok"
             /\ calls' = w
             /\ ~state.recording /\ ~state.busy
             /\ state'.recording
             /\ watchers'[w].pc = "wait"]_vars

\* C22 witness: with trigger phrases configured, a first start() failed and
\* started no watch thread; the second succeeded and its watch thread waits.
C22_Witness ==
    /\ auto_send_keywords # <<>>
    /\ prev.op = "start" /\ prev.res # "ok"
    /\ ret.op = "start" /\ ret.res = "ok"
    /\ watchers[1].pc = "none"
    /\ watchers[2].pc = "wait"
    /\ state.recording

\* C21: a tail transcription that raises inside the keyword watch loop is taken
\* as empty text: the step stops nothing, leaves recording and busy as they
\* are, and the thread goes back to its sleep, from where it polls again.
C21_TailFailureIsSwallowed ==
    [][\A w \in Sessions :
          (watchers[w].pc = "transcribe" /\ watchers'[w].pc # "transcribe"
              /\ w \in tailFailed')
          => /\ watchers'[w].pc = "wait"
             /\ state' = state
             /\ stopRuns' = stopRuns
             /\ UNCHANGED <<recVars, workers, lock>>]_vars

\* C21 witness: the tail transcription of a watch thread raised, the recording
\* went on, and the thread has polled again and holds a new tail clip.
C21_Witness ==
    \E w \in tailFailed :
        /\ watchers[w].pc = "transcribe"
        /\ state.recording /\ ~state.busy
        /\ is_recording
        /\ stopRuns[w] = 0
        /\ \E f \in tails : f.path = <<"tail", w>>

\* C23: no thread runs a transcription while it holds the state lock: not the
\* watch thread its tail transcription, and no holder the final one.
C23_NoTranscriptionUnderLock ==
    /\ \A w \in Sessions :
          watchers[w].pc = "transcribe" => ~(lock.by = "watch" /\ lock.w = w)
    /\ \A k \in Sessions :
          workers[k].pc = "transcribing" => lock.runs # k

\* C23 witness: a hotkey press took the lock while the final transcription of
\* a session and a tail transcription of its watch thread were both running.
C23_Witness ==
    \E s \in Sessions :
        /\ lock.by = "hotkey"
        /\ workers[s].pc = "transcribing"
        /\ watchers[s].pc = "transcribe"
        /\ state.busy

\* C24: the state lock is never held across file I/O: the thread that leaves
\* the "with lock:" block has written no file inside it.
C24_NoFileWriteUnderLock ==
    [][(lock.by # "none" /\ lock'.by = "none") => files' = files]_vars

\* a step in which worker k ends _transcribe_and_paste with copy, paste and
\* Enter done as far as they were due
Delivered(k) ==
    /\ workers[k].pc = "deliver"
    /\ workers'[k].pc = "done"
    /\ clipboard' # clipboard

\* the configured phrases the normalized text ends with, by index
Hits(text) ==
    {i \in 1..Len(auto_send_keywords) :
        LET norm == Normalize(text)
            kw == auto_send_keywords[i]
        IN  /\ Len(kw) <= Len(norm)
            /\ \A j \in 1..Len(kw) : norm[Len(norm) - Len(kw) + j] = kw[j]}

\* C25: when the normalized transcript ends with a trigger phrase, the text
\* delivered is the prefix of the original transcript before the trigger
\* occurrence, unchanged but for trailing whitespace, and Enter is sent: the
\* suffix cut off, once normalized, is the trigger phrase.
C25_CutKeepsThePrefix ==
    [][\A k \in Sessions :
          (Delivered(k) /\ Hits(workers[k].text) # {})
          => LET text == workers[k].text
             IN  /\ clipboard'.enter
                 /\ \E cut \in 0..Len(text), i \in Hits(text) :
                       /\ Normalize(SubSeq(text, cut + 1, Len(text))) = auto_send_keywords[i]
                       /\ clipboard'.text = RStrip(SubSeq(text, 1, cut), White)]_vars

\* C26: configured trigger phrases are normalized the same way as transcripts,
\* so a phrase matches exactly the transcripts its normalized form matches:
\* Enter is sent if and only if the normalized transcript ends with the
\* normalized form of a configured phrase.
C26_PhrasesAreNormalized ==
    [][\A k \in Sessions :
          Delivered(k)
          => (clipboard'.enter
              <=> \E i \in 1..Len(auto_send_keywords) :
                     EndsWith(Normalize(workers[k].text),
                              Normalize(auto_send_keywords[i])))]_vars

\* C27: for a transcript whose normalized form ends with a trigger phrase,
\* characters of . ! ? , ; : and space appended to it change nothing: the text
\* delivered and should_send are those of the transcript without them.
C27_TrailingPunctuationIsIgnored ==
    [][\A k \in Sessions :
          LET text == workers[k].text
              bare == RStrip(text, Punct)
          IN  (Delivered(k) /\ bare # text /\ Hits(bare) # {})
              => /\ clipboard'.enter
                 /\ clipboard'.enter = AutoSend(bare, auto_send_keywords).send
                 /\ clipboard'.text = AutoSend(bare, auto_send_keywords).text]_vars

\* C27 witness: "Go." was heard with the phrase "go" configured; nothing was
\* copied and Enter was sent, as for "Go".
C27_Witness ==
    /\ heard = <<"G", "o", ".">>
    /\ auto_send_keywords = << <<"g", "o">> >>
    /\ workers[1].pc = "done"
    /\ clipboard = [text |-> <<>>, enter |-> TRUE]

\* C28: when several configured phrases are suffixes of the normalized
\* transcript, the one that comes first in the configured order decides the
\* cut, also when a later one is longer.
C28_FirstPhraseDecides ==
    [][\A k \in Sessions :
          LET text == workers[k].text
              hits == Hits(text)
          IN  (Delivered(k) /\ hits # {})
              => LET first == CHOOSE i \in hits : \A j \in hits : i <= j
                     kw == auto_send_keywords[first]
                 IN  /\ clipboard'.enter
                     /\ clipboard'.text = AutoSend(text, <<kw>>).text]_vars

\* C28 witness: "aGo" was heard with the phrases "o" and "go" configured in
\* that order; the text delivered is "aG", cut by the shorter, first phrase.
C28_Witness ==
    /\ heard = <<"a", "G", "o">>
    /\ auto_send_keywords = << <<"o">>, <<"g", "o">> >>
    /\ workers[1].pc = "done"
    /\ clipboard = [text |-> <<"a", "G">>, enter |-> TRUE]

\* C29: should_send is set only when the normalized transcript ends with a
\* configured trigger phrase; with no phrase configured, or none matching, no
\* Enter is sent and the text delivered is the whitespace-stripped transcript.
C29_NoMatchNoSend ==
    [][\A k \in Sessions :
          (workers[k].pc = "deliver" /\ workers'[k].pc = "done")
          => /\ clipboard'.enter => Hits(workers[k].text) # {}
             /\ (Hits(workers[k].text) = {} /\ clipboard' # clipboard)
                   => clipboard' = [text |-> Strip(heard), enter |-> FALSE]]_vars

\* C29 witness: " G " was heard with the phrase "go" configured, which does
\* not end it: "G" was delivered and no Enter sent.
C29_Witness ==
    /\ heard = <<" ", "G", " ">>
    /\ auto_send_keywords = << <<"g", "o">> >>
    /\ workers[1].pc = "done"
    /\ clipboard = [text |-> <<"G">>, enter |-> FALSE]

\* C30: in manual toggle and in auto-stop mode alike, every captured block is
\* followed by one call of the live feedback callback with the levels of that
\* block: after the step that appends a block the levels shown are its own.
C30_EveryBlockIsShown ==
    [][/\ Len(frames') > Len(frames) => levels' = frames'[Len(frames')]
       /\ Len(auto'.frames) > Len(auto.frames) => levels' = <<0, Len(auto'.frames)>>]_vars

\* C33: while the daemon is busy a hotkey press starts no recording and runs
\* no stop: the keyboard thread that leaves the "with lock:" block of on_hotkey
\* in the busy state has left both flags, the recorder's buffer and stream,
\* the threads and the files as they were.
C33_BusyPressChangesNothing ==
    [][(lock.by = "hotkey" /\ lock'.by = "none" /\ state.busy)
        => UNCHANGED <<state, recVars, watchers, workers, clipboard, histVars>>]_vars

\* C33 witness: a hotkey press holds the lock while the daemon is busy with the
\* final transcription of a recording.
C33_Witness ==
    /\ lock.by = "hotkey"
    /\ state.busy
    /\ ~state.recording
    /\ \E s \in Sessions : workers[s].pc = "transcribing"

\* C34: the flags recording and busy are never both true: the daemon is Idle,
\* Recording or Busy.
C34_RecordingAndBusyExclude == ~(state.recording /\ state.busy)

\* C34 witness: each of the three states has been entered: the daemon is Busy
\* after the stop of a second recording, so it was Idle and Recording before.
C34_Witness ==
    /\ state.busy
    /\ ~state.recording
    /\ calls = 2
    /\ stopRuns[2] = 1
    /\ workers[2].pc = "transcribing"

\* the keyword watch threads that are alive: started and not yet returned or
\* crashed
AliveWatchers ==
    {w \in Sessions : watchers[w].pc \in {"wait", "tail", "transcribe", "trigger", "locked"}}

\* C35: at any time at most one keyword watch loop thread is alive in the
\* daemon.
C35_AtMostOneWatchLoop == Cardinality(AliveWatchers) <= 1

\* the transcribe-and-paste workers that are running: in the transcription or
\* between the end of the finally block and the paste
RunningWorkers == {k \in Sessions : workers[k].pc \in {"transcribing", "deliver"}}

C37_EmptyPhraseNeverMatches ==
    [][\A k \in Sessions :
          (/\ workers[k].pc = "deliver"
           /\ workers'[k].pc = "done"
           /\ \A i \in 1..Len(auto_send_keywords) : auto_send_keywords[i] = <<>>)
          => ~clipboard'.enter]_vars

\* the offsets of the stretches of one window length whose RMS exceeds
\* trim_threshold, wherever they begin
LoudStretches(audio, window) ==
    {i \in 0..(Len(audio) - window) :
        SumSq(SubSeq(audio, i + 1, i + window)) > trim_threshold * trim_threshold * window}

\* C38: silence trimming removes leading and trailing silence only: the copy
\* the model is run on is one contiguous sub-range of the input samples that
\* contains every stretch of one window whose RMS exceeds trim_threshold, the
\* last of the file included.
C38_TrimKeepsEveryLoudStretch ==
    (att.pc = "model" /\ att.path = TrimPath)
    => LET audio == FromBytes((CHOOSE f \in files : f.path = AudioPath).data)
           clip == FromBytes((CHOOSE f \in files : f.path = TrimPath).data)
           window == TrimWindow(TrimRate)
       IN  \E s \in 0..Len(audio) : \E e \in s..Len(audio) :
              /\ clip = SubSeq(audio, s + 1, e)
              /\ \A i \in LoudStretches(audio, window) : s <= i /\ i + window <= e

\* C31: for every input block, of fewer than two samples, of zeros or at full
\* scale, _compute_bands returns exactly 7 values, each within 0 and 1 (0 and
\* LevelScale fiftieths).
C31_SevenLevelsInRange ==
    bands.pc = "returned"
    => /\ Len(bands.levels) = 7
       /\ \A i \in 1..Len(bands.levels) :
              bands.levels[i] >= 0 /\ bands.levels[i] <= LevelScale

\* C31 witness: a block of 128 samples that is not silent came back with
\* levels clamped at both ends and one level between.
C31_Witness ==
    /\ bands.pc = "returned"
    /\ bands.n = 128
    /\ ~bands.zero
    /\ bands.levels = <<0, 0, 25, LevelScale, LevelScale, 0, LevelScale>>

\* start-up is over: every process that was started has left _write_pid, was
\* killed or has exited, and one at least was started
StartupFinished ==
    /\ \A p \in Daemons : procs[p].pc \in {"none", "running", "dead", "exited"}
    /\ \E p \in Daemons : procs[p].pc # "none"

\* C32: at most one daemon instance runs at a time: after start-up has
\* finished at most one daemon process is alive, and the PID file holds the
\* PID of the one that is.
C32_SingleInstance ==
    StartupFinished
    => /\ Cardinality(Alive) <= 1
       /\ \A p \in Alive : pid_file = [exists |-> TRUE, pid |-> p]

====
